---- MODULE Spec2Model ----
(***************************************************************************)
(* Model of the lexer of cool-rs (src/src/lexer.rs).                       *)
(*                                                                         *)
(* A character is a string naming it: "a", "{", " ", "\n", and "NUL" for   *)
(* U+0000; characters outside ASCII are named by code point ("U+00E9").   *)
(* A text is a sequence of characters.  Option<T> is a sequence of length  *)
(* 0 (None) or 1 (Some).  An i64 is three limbs base 10^7, most            *)
(* significant first, so that values up to 2^63-1 are computed exactly.    *)
(***************************************************************************)
EXTENDS Integers, Sequences, FiniteSets, TLC

\* ---------------------------------------------------------------- bounds
\* Every text over Alphabet of at most MaxLen characters is an input.
MaxLen == 3
\* The first MaxCalls results of a run are recorded in out.
MaxCalls == 7
\* Every text over Alphabet of at most FairLen characters is an input of the
\* runs checked under fairness.
FairLen == 2

\* ------------------------------------------------------------ characters
None == <<>>
Some(x) == <<x>>

Quote == "\""
Nul == "NUL"
Newline == "\n"
Backslash == "\\"

LowerAscii == {"a", "b", "c", "d", "e", "f", "g", "h", "i", "j", "k", "l", "m",
               "n", "o", "p", "q", "r", "s", "t", "u", "v", "w", "x", "y", "z"}
UpperAscii == {"A", "B", "C", "D", "E", "F", "G", "H", "I", "J", "K", "L", "M",
               "N", "O", "P", "Q", "R", "S", "T", "U", "V", "W", "X", "Y", "Z"}
DigitChars == <<"0", "1", "2", "3", "4", "5", "6", "7", "8", "9">>

\* is_whitespace as a comparison with the space character.
is_whitespace_space_only(ch) == ch = " "

\* char::is_whitespace: the Unicode White_Space property (U+00A0 is the
\* no-break space, two bytes in UTF-8).
is_whitespace(ch) == ch \in {" ", "\t", "\n", "\r", "U+00A0"}

\* char::is_ascii_digit
is_ascii_digit(ch) == \E i \in 1..10 : DigitChars[i] = ch

\* char::is_alphanumeric: Unicode Alphabetic or Numeric (U+00E9 is a
\* lowercase letter, U+00C9 an uppercase letter, U+0663 a decimal digit).
is_alphanumeric(ch) ==
    \/ ch \in LowerAscii \cup UpperAscii
    \/ is_ascii_digit(ch)
    \/ ch \in {"U+00E9", "U+00C9", "U+0663"}

\* char::is_uppercase
is_uppercase(ch) == ch \in UpperAscii \cup {"U+00C9"}

\* The pattern 'a'..='z' | 'A'..='Z' | '_' of next_token.
is_ident_start(ch) == ch \in LowerAscii \cup UpperAscii \cup {"_"}

\* ------------------------------------------------------------------ i64
LimbBase == 10 ^ 7
\* i64::MAX = 9223372036854775807
I64_MAX == <<92233, 7203685, 4775807>>
Zero == <<0, 0, 0>>

LimbLeq(a, b) ==
    \/ a[1] < b[1]
    \/ a[1] = b[1] /\ a[2] < b[2]
    \/ a[1] = b[1] /\ a[2] = b[2] /\ a[3] <= b[3]

\* acc * 10 + d, exactly.
MulAdd(acc, d) ==
    LET lo == acc[3] * 10 + d
        mid == acc[2] * 10 + (lo \div LimbBase)
        hi == acc[1] * 10 + (mid \div LimbBase)
    IN  <<hi, mid % LimbBase, lo % LimbBase>>

DigitVal(ch) == (CHOOSE i \in 1..10 : DigitChars[i] = ch) - 1

\* The accumulation of str::parse for a non-empty run of ASCII digits:
\* acc * 10 + d per digit, with an overflow check against the type's
\* maximum; any overflow is an Err.
RECURSIVE parse_from(_, _, _, _)
parse_from(num, i, acc, max) ==
    IF i > Len(num) THEN [ok |-> TRUE, val |-> acc]
    ELSE LET nxt == MulAdd(acc, DigitVal(num[i]))
         IN  IF LimbLeq(nxt, max) THEN parse_from(num, i + 1, nxt, max)
             ELSE [ok |-> FALSE, val |-> Zero]

\* i32::MAX = 2147483647
I32_MAX == <<0, 214, 7483647>>

\* The digits parsed as an i32.
parse_i32(num) == parse_from(num, 1, Zero, I32_MAX)

\* num.parse::<i64>()
parse_i64(num) == parse_from(num, 1, Zero, I64_MAX)

\* ------------------------------------------------------- tokens, errors
Marker(tag) == [tag |-> tag, val |-> <<>>]
Payload(tag, v) == [tag |-> tag, val |-> v]

Ok(tt, start, end) ==
    [kind |-> "ok", token_type |-> tt, span |-> [start |-> start, end |-> end]]
Err(tag, c) == [kind |-> "err", err |-> [tag |-> tag, c |-> c]]
NoResult == [kind |-> "none"]

\* ------------------------------------------------------------- position
Pos_new(offset, line, col) == [offset |-> offset, line |-> line, col |-> col]

\* Pos_advance with the column left as it is on a newline.
Pos_advance_no_reset(p, c) ==
    IF c = Newline
    THEN [offset |-> p.offset + 1, line |-> p.line + 1, col |-> p.col]
    ELSE [offset |-> p.offset + 1, line |-> p.line, col |-> p.col + 1]

Pos_advance(p, c) ==
    IF c = Newline
    THEN [offset |-> p.offset + 1, line |-> p.line + 1, col |-> 0]
    ELSE [offset |-> p.offset + 1, line |-> p.line, col |-> p.col + 1]

\* ------------------------------------------------------ character source
\* Chars::next: the first character of what is left, None when exhausted.
Chars_next(b) ==
    IF b = <<>> THEN [item |-> None, rest |-> b]
    ELSE [item |-> Some(Head(b)), rest |-> Tail(b)]

\* Lexer::new
Lexer_new(text) ==
    LET n == Chars_next(text)
    IN  [buffer |-> n.rest, current |-> n.item, pos |-> Pos_new(0, 1, 0), peek |-> None]

\* Lexer::advance that reads the next character from the buffer whatever
\* the peek slot holds.
Lexer_advance_drop_peek(lx) ==
    LET curr == lx.current
        p == IF curr # None THEN Pos_advance(lx.pos, curr[1]) ELSE lx.pos
        n == Chars_next(lx.buffer)
    IN  [lx |-> [buffer |-> n.rest, current |-> n.item, pos |-> p, peek |-> None],
         ret |-> curr]

\* Lexer::advance: the lexer after the call, and the character returned.
Lexer_advance(lx) ==
    LET curr == lx.current
        p == IF curr # None THEN Pos_advance(lx.pos, curr[1]) ELSE lx.pos
        n == Chars_next(lx.buffer)
    IN  [lx |-> IF lx.peek # None
                THEN [buffer |-> lx.buffer, current |-> lx.peek, pos |-> p, peek |-> None]
                ELSE [buffer |-> n.rest, current |-> n.item, pos |-> p, peek |-> None],
         ret |-> curr]

\* Lexer::peek: the lexer after the call, and the character returned.
Lexer_peek(lx) ==
    LET n == Chars_next(lx.buffer)
        l1 == IF lx.peek = None
              THEN [lx EXCEPT !.peek = n.item, !.buffer = n.rest]
              ELSE lx
    IN  [lx |-> l1, ret |-> l1.peek]

\* self.advance() on the lexer an expression denotes: the expression is
\* evaluated once, and Lexer_advance applied to its value.
advance(self) == CHOOSE r \in {Lexer_advance(lx) : lx \in {self}} : TRUE

RECURSIVE skip_whitespace(_)
\* skip_whitespace with an if for the while: one character at most.
skip_whitespace_once(lx) ==
    IF lx.current # None /\ is_whitespace(lx.current[1])
    THEN advance(lx).lx
    ELSE lx

\* Lexer::skip_whitespace
skip_whitespace(lx) ==
    IF lx.current # None /\ is_whitespace(lx.current[1])
    THEN skip_whitespace(advance(lx).lx)
    ELSE lx

\* ------------------------------------------------------------- scanners
RECURSIVE string_loop(_, _)
\* string_loop with escape processing: a backslash is dropped.
string_loop_escapes(lx, string) ==
    IF lx.current = None THEN [lx |-> lx, res |-> Err("StringContainsEof", None)]
    ELSE LET ch == lx.current[1]
         IN  CASE ch = Quote -> [lx |-> advance(lx).lx,
                                 res |-> Payload("StringLiteral", string)]
               [] ch = Nul -> [lx |-> lx, res |-> Err("StringContainsNull", None)]
               [] ch = Newline -> [lx |-> lx, res |-> Err("StringUnterminated", None)]
               [] ch = Backslash -> string_loop(advance(lx).lx, string)
               [] OTHER -> string_loop(advance(lx).lx, Append(string, ch))

\* string_loop with a newline taken as content.
string_loop_multiline(lx, string) ==
    IF lx.current = None THEN [lx |-> lx, res |-> Err("StringContainsEof", None)]
    ELSE LET ch == lx.current[1]
         IN  CASE ch = Quote -> [lx |-> advance(lx).lx,
                                 res |-> Payload("StringLiteral", string)]
               [] ch = Nul -> [lx |-> lx, res |-> Err("StringContainsNull", None)]
               [] OTHER -> string_loop(advance(lx).lx, Append(string, ch))

\* string_loop that consumes the null or newline it fails on.
string_loop_consuming(lx, string) ==
    IF lx.current = None THEN [lx |-> lx, res |-> Err("StringContainsEof", None)]
    ELSE LET ch == lx.current[1]
         IN  CASE ch = Quote -> [lx |-> advance(lx).lx,
                                 res |-> Payload("StringLiteral", string)]
               [] ch = Nul -> [lx |-> advance(lx).lx,
                               res |-> Err("StringContainsNull", None)]
               [] ch = Newline -> [lx |-> advance(lx).lx,
                                   res |-> Err("StringUnterminated", None)]
               [] OTHER -> string_loop(advance(lx).lx, Append(string, ch))

\* The loop of tokenize_string, with the text accumulated so far.
string_loop(lx, string) ==
    IF lx.current = None THEN [lx |-> lx, res |-> Err("StringContainsEof", None)]
    ELSE LET ch == lx.current[1]
         IN  CASE ch = Quote -> [lx |-> advance(lx).lx,
                                 res |-> Payload("StringLiteral", string)]
               [] ch = Nul -> [lx |-> lx, res |-> Err("StringContainsNull", None)]
               [] ch = Newline -> [lx |-> lx, res |-> Err("StringUnterminated", None)]
               [] OTHER -> string_loop(advance(lx).lx, Append(string, ch))

\* tokenize_string that gives back the lexer it was called on when the scan
\* fails.
tokenize_string_rewind(lx) ==
    LET r == string_loop(advance(lx).lx, <<>>)
    IN  IF "kind" \in DOMAIN r.res THEN [lx |-> lx, res |-> r.res] ELSE r

\* Lexer::tokenize_string: the lexer after the call, and Ok(TokenType) (a
\* record with a tag) or Err(LexerError) (a record of kind "err").
tokenize_string(lx) == string_loop(advance(lx).lx, <<>>)

\* The loop of tokenize_number, with the digits accumulated so far.
RECURSIVE number_loop(_, _)
number_loop(lx, num) ==
    IF lx.current # None /\ is_ascii_digit(lx.current[1])
    THEN number_loop(advance(lx).lx, Append(num, lx.current[1]))
    ELSE [lx |-> lx, num |-> num]

\* tokenize_number that leaves the digits unconsumed when the parse fails.
tokenize_number_rewind(lx) ==
    LET r == number_loop(lx, <<>>)
        v == parse_i64(r.num)
    IN  IF v.ok THEN [lx |-> r.lx, res |-> Payload("IntLiteral", v.val)]
        ELSE [lx |-> lx, res |-> Err("InvalidChar", Some("0"))]

\* Lexer::tokenize_number
tokenize_number(lx) ==
    LET r == number_loop(lx, <<>>)
        v == parse_i64(r.num)
    IN  [lx |-> r.lx,
         res |-> IF v.ok THEN Payload("IntLiteral", v.val)
                 ELSE Err("InvalidChar", Some("0"))]

\* The loop of tokenize_ident, with the text accumulated so far.
RECURSIVE ident_loop(_, _)
ident_loop(lx, ident) ==
    IF lx.current # None /\ (is_alphanumeric(lx.current[1]) \/ lx.current[1] = "_")
    THEN ident_loop(advance(lx).lx, Append(ident, lx.current[1]))
    ELSE [lx |-> lx, ident |-> ident]

\* The string patterns of the match in tokenize_ident, in source order.
KeywordTable ==
    << << <<"t", "r", "u", "e">>, Payload("BoolLiteral", TRUE)>>,
       << <<"f", "a", "l", "s", "e">>, Payload("BoolLiteral", FALSE)>>,
       << <<"i", "f">>, Marker("If")>>,
       << <<"f", "i">>, Marker("Fi")>>,
       << <<"e", "l", "s", "e">>, Marker("Else")>>,
       << <<"w", "h", "i", "l", "e">>, Marker("While")>>,
       << <<"c", "a", "s", "e">>, Marker("Case")>>,
       << <<"e", "s", "a", "c">>, Marker("Esac")>>,
       << <<"i", "s", "v", "o", "i", "d">>, Marker("IsVoid")>>,
       << <<"l", "e", "t">>, Marker("Let")>>,
       << <<"l", "o", "o", "p">>, Marker("Loop")>>,
       << <<"n", "e", "w">>, Marker("New")>>,
       << <<"n", "o", "t">>, Marker("Not")>>,
       << <<"o", "f">>, Marker("Of")>>,
       << <<"p", "o", "o", "l">>, Marker("Pool")>>,
       << <<"t", "h", "e", "n">>, Marker("Then")>>,
       << <<"i", "n">>, Marker("In")>>,
       << <<"i", "n", "h", "e", "r", "i", "t", "s">>, Marker("Inherits")>>,
       << <<"c", "l", "a", "s", "s">>, Marker("Class")>>>>

is_keyword(ident) == \E i \in 1..Len(KeywordTable) : KeywordTable[i][1] = ident

\* classify without the ClassName case.
classify_no_classname(ident) ==
    IF is_keyword(ident)
    THEN KeywordTable[CHOOSE i \in 1..Len(KeywordTable) : KeywordTable[i][1] = ident][2]
    ELSE Payload("Ident", ident)

\* The match of tokenize_ident on the accumulated text.
classify(ident) ==
    IF is_keyword(ident)
    THEN KeywordTable[CHOOSE i \in 1..Len(KeywordTable) : KeywordTable[i][1] = ident][2]
    ELSE IF ident # <<>> /\ is_uppercase(ident[1])
         THEN Payload("ClassName", ident)
         ELSE Payload("Ident", ident)

\* Lexer::tokenize_ident
tokenize_ident(lx) ==
    LET r == ident_loop(lx, <<>>)
    IN  [lx |-> r.lx, res |-> classify(r.ident)]

\* dispatch with an unrecognized character consumed by the failing arm.
dispatch_consuming(lx) ==
    IF lx.current = None THEN [lx |-> lx, res |-> Marker("Eof")]
    ELSE LET c == lx.current[1]
         IN  CASE c = "{" -> [lx |-> advance(lx).lx, res |-> Marker("LBrace")]
               [] c = "}" -> [lx |-> advance(lx).lx, res |-> Marker("RBrace")]
               [] c = Quote -> tokenize_string(lx)
               [] is_ascii_digit(c) -> tokenize_number(lx)
               [] is_ident_start(c) -> tokenize_ident(lx)
               [] OTHER -> [lx |-> advance(lx).lx, res |-> Err("InvalidChar", Some(c))]

\* dispatch whose end-of-input arm steps the position as for a character.
dispatch_eof_advances(lx) ==
    IF lx.current = None
    THEN [lx |-> [lx EXCEPT !.pos = Pos_advance(lx.pos, " ")], res |-> Marker("Eof")]
    ELSE LET c == lx.current[1]
         IN  CASE c = "{" -> [lx |-> advance(lx).lx, res |-> Marker("LBrace")]
               [] c = "}" -> [lx |-> advance(lx).lx, res |-> Marker("RBrace")]
               [] c = Quote -> tokenize_string(lx)
               [] is_ascii_digit(c) -> tokenize_number(lx)
               [] is_ident_start(c) -> tokenize_ident(lx)
               [] OTHER -> [lx |-> lx, res |-> Err("InvalidChar", Some(c))]

\* The match on self.current in next_token, at the lexer after
\* skip_whitespace: the lexer after the arm, and the token type or the error.
dispatch(lx) ==
    IF lx.current = None THEN [lx |-> lx, res |-> Marker("Eof")]
    ELSE LET c == lx.current[1]
         IN  CASE c = "{" -> [lx |-> advance(lx).lx, res |-> Marker("LBrace")]
               [] c = "}" -> [lx |-> advance(lx).lx, res |-> Marker("RBrace")]
               [] c = Quote -> tokenize_string(lx)
               [] is_ascii_digit(c) -> tokenize_number(lx)
               [] is_ident_start(c) -> tokenize_ident(lx)
               [] OTHER -> [lx |-> lx, res |-> Err("InvalidChar", Some(c))]

IsErr(r) == "kind" \in DOMAIN r

\* next_token without the call of skip_whitespace.
next_token_no_skip(lx) ==
    LET start == lx.pos
        d == dispatch(lx)
    IN  [lx |-> d.lx,
         res |-> IF IsErr(d.res) THEN d.res ELSE Ok(d.res, start, d.lx.pos)]

\* next_token with the start recorded before the whitespace skip.
next_token_early_start(lx) ==
    LET l1 == skip_whitespace(lx)
        start == lx.pos
        d == dispatch(l1)
    IN  [lx |-> d.lx,
         res |-> IF IsErr(d.res) THEN d.res ELSE Ok(d.res, start, d.lx.pos)]

\* Lexer::next_token: the lexer after the call, and the Result returned.
next_token(lx) ==
    LET l1 == skip_whitespace(lx)
        start == l1.pos
        d == dispatch(l1)
    IN  [lx |-> d.lx,
         res |-> IF IsErr(d.res) THEN d.res ELSE Ok(d.res, start, d.lx.pos)]

\* The match of Iterator::next on the Result of next_token.
iter_item_yield_eof(res) == Some(res)

iter_item(res) ==
    IF res.kind = "ok"
    THEN IF res.token_type.tag = "Eof" THEN None ELSE Some(res)
    ELSE Some(res)

\* ---------------------------------------------------------------- inputs
\* The characters of the exhaustively enumerated inputs.
Alphabet == {" ", Newline, "{", ";", Quote, Nul, "1", "a", "A", "_", "+"}

AllTexts(n) == UNION {[1..k -> Alphabet] : k \in 0..n}

Text_ClassMain == <<"c", "l", "a", "s", "s", " ", "M", "a", "i", "n", " ", "{", " ", "x", " ", ":", " ", "I", "n", "t", " ", ";", " ", "}">>
Text_AB == <<"a", Newline, "b">>
Text_FivePlusThree == <<"5", " ", "+", " ", "3">>

\* Words: the keywords, and names around them.
WordTexts ==
    {<<"t", "r", "u", "e">>,
     <<"f", "a", "l", "s", "e">>,
     <<"i", "f">>,
     <<"f", "i">>,
     <<"e", "l", "s", "e">>,
     <<"w", "h", "i", "l", "e">>,
     <<"c", "a", "s", "e">>,
     <<"e", "s", "a", "c">>,
     <<"i", "s", "v", "o", "i", "d">>,
     <<"l", "e", "t">>,
     <<"l", "o", "o", "p">>,
     <<"n", "e", "w">>,
     <<"n", "o", "t">>,
     <<"o", "f">>,
     <<"p", "o", "o", "l">>,
     <<"t", "h", "e", "n">>,
     <<"i", "n">>,
     <<"i", "n", "h", "e", "r", "i", "t", "s">>,
     <<"c", "l", "a", "s", "s">>,
     <<"C", "l", "a", "s", "s">>,
     <<"T", "r", "u", "e">>,
     <<"I", "f">>,
     <<"i", "F">>,
     <<"c", "l", "a", "s", "s", "e", "s">>,
     <<"i", "n", "_">>,
     <<"_", "f", "o", "o">>,
     <<"f", "o", "o">>,
     <<"F", "o", "o">>,
     <<"_">>,
     <<"x", "1">>,
     <<"c", "a", "f", "U+00E9">>,
     <<"a", "U+0663">>,
     <<"X", "U+00C9">>,
     <<"U+0663">>,
     <<"U+00C9", "a">>}

\* String literals, closed and not.
StringTexts ==
    {<<Quote, "a", Backslash, "n", "b", Quote>>,
     <<Quote, "h", "e", " ", "s", "a", "i", "d", "\t", "s", "o", " ", "U+00E9", Quote>>,
     <<Quote, Backslash, Quote>>,
     <<Quote, "a", "b">>,
     <<Quote, "a", Newline, "b", Quote, " ", "c">>,
     <<Quote, "a", Nul, "b", Quote>>,
     <<Quote, "x", Quote, " ", Quote, "y", Quote>>,
     <<Quote, Quote>>,
     <<Quote, "{", ";", "}", Quote>>,
     <<Quote, " ", Quote>>,
     <<Quote, "a", "b", Quote, "c", "d">>}

OtherTexts ==
    {<<"{", " ", "}">>,
     <<"}", "{">>,
     <<"\t", "i", "f", "\r", Newline, " ", "f", "i">>,
     <<"a", "U+00A0", "b">>,
     <<Newline, Newline, "{">>,
     <<"1", "a">>,
     <<"a", "1", " ", "2", "2">>,
     <<"1", "2">>,
     <<"i", "f", "(">>,
     <<"x", ";", "y">>,
     <<" ", "\t", "\r", Newline>>,
     <<"U+00A0", " ">>,
     <<"}", Newline, "}">>}

\* u64::MAX = 18446744073709551615, the largest integer 64 bits hold.
U64_MAX == <<184467, 4407370, 9551615>>

\* Integers whose decimal text is an input: 0, 7, 42, 10^7 - 1, 10^7, 2^31,
\* 2^63 - 1, 2^63, 2^64 - 1.
Numbers ==
    {Zero, <<0, 0, 7>>, <<0, 0, 42>>, <<0, 0, 9999999>>, <<0, 1, 0>>,
     <<0, 214, 7483648>>, I64_MAX, <<92233, 7203685, 4775808>>, U64_MAX}

\* The seven decimal digits of a limb.
Digits7(x) == [i \in 1..7 |-> DigitChars[((x \div (10 ^ (7 - i))) % 10) + 1]]

RECURSIVE StripZeros(_)
StripZeros(ds) == IF Len(ds) > 1 /\ Head(ds) = "0" THEN StripZeros(Tail(ds)) ELSE ds

\* The decimal text of n: no sign, no leading zero.
ToDecimal(n) == StripZeros(Digits7(n[1]) \o Digits7(n[2]) \o Digits7(n[3]))

DecimalOf == [n \in Numbers |-> ToDecimal(n)]

\* The decimal texts of Numbers, and digit runs that are no integer's
\* decimal text or exceed 64 bits.
NumberTexts ==
    {DecimalOf[n] : n \in Numbers}
    \cup {<<"0", "0", "7">>,
          <<"1", "8", "4", "4", "6", "7", "4", "4", "0", "7", "3", "7", "0", "9", "5", "5", "1", "6", "1", "6">>,
          <<"9", "9", "9", "9", "9", "9", "9", "9", "9", "9", "9", "9", "9", "9", "9", "9", "9", "9", "9", "9">>}

\* 2^63 and 2^64 - 1 with text after them.
OverflowTexts ==
    {DecimalOf[<<92233, 7203685, 4775808>>] \o <<" ", "x">>,
     DecimalOf[U64_MAX] \o <<"a", "1">>,
     <<"{">> \o DecimalOf[<<92233, 7203685, 4775808>>] \o <<"}">>}

Inputs ==
    AllTexts(MaxLen) \cup {Text_ClassMain, Text_AB, Text_FivePlusThree}
    \cup WordTexts \cup StringTexts \cup OtherTexts \cup NumberTexts
    \cup OverflowTexts

\* ---------------------------------------------------------------- state
VARIABLES
    input,    \* the source text the lexer borrows
    buffer,   \* Lexer.buffer: the characters Chars has not yet produced
    current,  \* Lexer.current
    pos,      \* Lexer.pos
    peek,     \* Lexer.peek
    ret,      \* the Result of the last next_token call
    out,      \* the Results of the first MaxCalls next_token calls, in order
    item,     \* what the last call returned, when it was Iterator::next
    taken,    \* the characters the advance calls of a caller returned
    seen      \* what the last call returned, when it was peek

vars == <<input, buffer, current, pos, peek, ret, out, item, taken, seen>>

\* The Lexer struct.
Lx == [buffer |-> buffer, current |-> current, pos |-> pos, peek |-> peek]

NoItem == [called |-> FALSE, val |-> None]
NoSeen == [called |-> FALSE, val |-> None]

Init ==
    /\ input \in Inputs
    /\ LET lx == Lexer_new(input)
       IN  /\ buffer = lx.buffer
           /\ current = lx.current
           /\ pos = lx.pos
           /\ peek = lx.peek
    /\ ret = NoResult
    /\ out = <<>>
    /\ item = NoItem
    /\ taken = <<>>
    /\ seen = NoSeen

\* The effect of one next_token call on the lexer, and its Result recorded.
Called(r) ==
    /\ buffer' = r.lx.buffer
    /\ current' = r.lx.current
    /\ pos' = r.lx.pos
    /\ peek' = r.lx.peek
    /\ ret' = r.res
    /\ out' = IF Len(out) < MaxCalls THEN Append(out, r.res) ELSE out
    /\ UNCHANGED <<input, taken, seen>>

\* A caller calls Lexer::next_token.
CallNextToken ==
    /\ Called(next_token(Lx))
    /\ item' = NoItem

\* A caller pulls from the Iterator: Iterator::next.
Iterator_next ==
    /\ Called(next_token(Lx))
    /\ item' = [called |-> TRUE, val |-> iter_item(ret')]

Next == CallNextToken \/ Iterator_next

Spec == Init /\ [][Next]_vars

\* The lexer's own use of its cursor, call by call: Lexer::peek.
CallPeek ==
    LET r == Lexer_peek(Lx)
    IN  /\ buffer' = r.lx.buffer
        /\ current' = r.lx.current
        /\ pos' = r.lx.pos
        /\ peek' = r.lx.peek
        /\ seen' = [called |-> TRUE, val |-> r.ret]
        /\ UNCHANGED <<input, ret, out, item, taken>>

\* Lexer::advance; the characters it returns are recorded.
CallAdvance ==
    LET r == Lexer_advance(Lx)
    IN  /\ buffer' = r.lx.buffer
        /\ current' = r.lx.current
        /\ pos' = r.lx.pos
        /\ peek' = r.lx.peek
        /\ taken' = IF r.ret # None THEN Append(taken, r.ret[1]) ELSE taken
        /\ seen' = NoSeen
        /\ UNCHANGED <<input, ret, out, item>>

CursorNext == CallPeek \/ CallAdvance

\* Any interleaving of peek and advance calls on a fresh lexer.
CursorSpec == Init /\ [][CursorNext]_vars

\* A caller that keeps calling, on the scenario inputs and the short texts:
\* each call that changes the state is eventually made.
FairInputs ==
    AllTexts(FairLen) \cup {Text_ClassMain, Text_AB, Text_FivePlusThree}

FairInit == Init /\ input \in FairInputs

FairSpec ==
    FairInit /\ [][Next]_vars /\ WF_vars(CallNextToken) /\ WF_vars(Iterator_next)

\* ------------------------------------------------------------ properties
IsEof(r) == r.kind = "ok" /\ r.token_type.tag = "Eof"
IsOk(r, tt) == r.kind = "ok" /\ r.token_type = tt
IsError(r, tag) == r.kind = "err" /\ r.err.tag = tag

\* The token the specification gives each punctuation character.
PunctTag(c) ==
    CASE c = "{" -> "LBrace" [] c = "}" -> "RBrace" [] c = ";" -> "Semicolon"

\* C1: a next_token call whose whitespace skip stops at '{', '}' or ';'
\* consumes exactly that character (the offset grows by 1 from where the
\* skip stopped) and returns Ok with LBrace, RBrace or Semicolon; none of
\* the three produces an error.
C1_PunctuationTokens ==
    [][LET l1 == skip_whitespace(Lx)
       IN  (l1.current # None /\ l1.current[1] \in {"{", "}", ";"}) =>
               /\ IsOk(ret', Marker(PunctTag(l1.current[1])))
               /\ pos'.offset = l1.pos.offset + 1]_vars

\* C2: for every input, a caller that keeps calling next_token (or pulling
\* from the Iterator) eventually gets the Eof token (the Iterator: None).
C2_EventuallyEof == <>IsEof(ret)

\* The characters the dispatch of next_token is specified to accept.
Recognized(c) ==
    \/ c \in {"{", "}", ";", Quote}
    \/ is_ascii_digit(c)
    \/ c \in LowerAscii \cup UpperAscii \cup {"_"}

\* C3: a next_token call whose whitespace skip stops at a character c that
\* is none of end-of-input, '{', '}', ';', '"', an ASCII digit, an ASCII
\* letter or '_' returns Err(InvalidChar(c)) and leaves current, peek and
\* position as they were right after the skip; the same call repeated at
\* once returns the same error and changes nothing.
C3_InvalidCharNotConsumed ==
    [][LET l1 == skip_whitespace(Lx)
       IN  (l1.current # None /\ ~Recognized(l1.current[1])) =>
               /\ ret' = Err("InvalidChar", l1.current)
               /\ Lx' = l1
               /\ next_token(Lx') = [lx |-> Lx', res |-> ret']]_vars

\* C3 happens: after a skipped space, '+' was reported twice in a row and
\* is still the current character.
C3_Witness ==
    /\ Len(out) >= 2
    /\ out[1] = Err("InvalidChar", Some("+"))
    /\ out[2] = out[1]
    /\ current = Some("+")
    /\ pos.offset = 1

\* C4: pulling from `class Main { x : Int ; }` yields Class,
\* ClassName("Main"), LBrace, Ident("x") and then a token for each remaining
\* lexeme up to end-of-input (the ninth result), every call returning Ok.
C4_ClassMainAllOk ==
    input = Text_ClassMain =>
        /\ \A i \in 1..Len(out) : out[i].kind = "ok"
        /\ Len(out) >= 1 => out[1].token_type = Marker("Class")
        /\ Len(out) >= 2 => out[2].token_type = Payload("ClassName", <<"M", "a", "i", "n">>)
        /\ Len(out) >= 3 => out[3].token_type = Marker("LBrace")
        /\ Len(out) >= 4 => out[4].token_type = Payload("Ident", <<"x">>)
        /\ Len(out) >= 9 => IsEof(out[9])

\* A text wrapped in quotes whose inner characters are neither a quote, a
\* null nor a newline, and that inner text.
IsQuoted(t) ==
    /\ Len(t) >= 2
    /\ t[1] = Quote
    /\ t[Len(t)] = Quote
    /\ \A i \in 2..(Len(t) - 1) : t[i] \notin {Quote, Nul, Newline}
Inner(t) == SubSeq(t, 2, Len(t) - 1)

\* C5: for an input `"` s `"` with no quote, null or newline in s, the
\* first next_token call returns one StringLiteral whose payload is s
\* character for character, spanning the len(s)+2 characters of the input,
\* and the second call returns Eof.
C5_StringPayloadVerbatim ==
    IsQuoted(input) =>
        /\ Len(out) >= 1 =>
               /\ IsOk(out[1], Payload("StringLiteral", Inner(input)))
               /\ out[1].span.start.offset = 0
               /\ out[1].span.end.offset = Len(Inner(input)) + 2
        /\ Len(out) = 1 => (pos.offset = Len(input) /\ current = None)
        /\ Len(out) >= 2 => IsEof(out[2])

\* C5 happens: `"a\nb"` (a backslash and an n, no newline) was lexed to its
\* four inner characters and then Eof.
C5_Witness ==
    /\ input = <<Quote, "a", Backslash, "n", "b", Quote>>
    /\ Len(out) >= 2
    /\ IsOk(out[1], Payload("StringLiteral", <<"a", Backslash, "n", "b">>))
    /\ IsEof(out[2])

\* The index in rest of the first quote, null or newline; 0 when there is
\* none before end-of-input.
FirstStop(rest) ==
    IF \E k \in 1..Len(rest) : rest[k] \in {Quote, Nul, Newline}
    THEN CHOOSE k \in 1..Len(rest) :
             /\ rest[k] \in {Quote, Nul, Newline}
             /\ \A j \in 1..(k - 1) : rest[j] \notin {Quote, Nul, Newline}
    ELSE 0

\* C6: a next_token call whose whitespace skip stops at an opening quote is
\* decided by the first quote, null, newline or end-of-input after it:
\* Ok(StringLiteral) of the text before a closing quote,
\* Err(StringContainsNull), Err(StringUnterminated), Err(StringContainsEof)
\* respectively, and nothing else.
C6_StringOutcome ==
    [][LET l1 == skip_whitespace(Lx)
           rest == l1.peek \o l1.buffer
           k == FirstStop(rest)
       IN  l1.current = Some(Quote) =>
               IF k = 0 THEN ret' = Err("StringContainsEof", None)
               ELSE IF rest[k] = Quote
                    THEN IsOk(ret', Payload("StringLiteral", SubSeq(rest, 1, k - 1)))
               ELSE IF rest[k] = Nul THEN ret' = Err("StringContainsNull", None)
               ELSE ret' = Err("StringUnterminated", None)]_vars

\* C6 happens: in `"a<newline>b" c` the first string scan stopped at the
\* newline, and the scan from the second quote ran into end-of-input.
C6_Witness ==
    /\ input = <<Quote, "a", Newline, "b", Quote, " ", "c">>
    /\ Len(out) >= 3
    /\ IsError(out[1], "StringUnterminated")
    /\ IsOk(out[2], Payload("Ident", <<"b">>))
    /\ IsError(out[3], "StringContainsEof")

\* A digit run that is an integer's decimal text: no leading zero.
IsDecimalText(t) ==
    /\ Len(t) >= 1
    /\ \A i \in 1..Len(t) : is_ascii_digit(t[i])
    /\ Len(t) > 1 => t[1] # "0"

\* a <= b for decimal texts of equal length.
DecimalLeq(a, b) ==
    \/ a = b
    \/ \E i \in 1..Len(a) :
           /\ DigitVal(a[i]) < DigitVal(b[i])
           /\ \A j \in 1..(i - 1) : a[j] = b[j]

Text_I64_MAX == <<"9", "2", "2", "3", "3", "7", "2", "0", "3", "6", "8", "5", "4", "7", "7", "5", "8", "0", "7">>

\* The decimal text denotes an integer of at most 2^63 - 1.
FitsI64(t) ==
    \/ Len(t) < Len(Text_I64_MAX)
    \/ Len(t) = Len(Text_I64_MAX) /\ DecimalLeq(t, Text_I64_MAX)

IsLimbs(v) == \A i \in 1..3 : v[i] >= 0 /\ (i > 1 => v[i] < LimbBase)

\* C7: for every integer n from 0 to 2^63 - 1, lexing the decimal text of n
\* returns on the first call one IntLiteral carrying exactly n (its decimal
\* text is the input) whose span runs from the first digit to just past the
\* last, and the second call returns Eof.
C7_IntLiteralExact ==
    /\ (IsDecimalText(input) /\ FitsI64(input)) =>
           /\ Len(out) >= 1 =>
                  /\ out[1].kind = "ok"
                  /\ out[1].token_type.tag = "IntLiteral"
                  /\ IsLimbs(out[1].token_type.val)
                  /\ ToDecimal(out[1].token_type.val) = input
                  /\ out[1].span.start = Pos_new(0, 1, 0)
                  /\ out[1].span.end = Pos_new(Len(input), 1, Len(input))
           /\ Len(out) >= 2 => IsEof(out[2])
    /\ \A n \in Numbers :
           (Len(out) >= 1 /\ LimbLeq(n, I64_MAX) /\ input = DecimalOf[n]) =>
               IsOk(out[1], Payload("IntLiteral", n))

\* C7 happens: 9223372036854775807 was lexed to IntLiteral(2^63 - 1), then
\* Eof.
C7_Witness ==
    /\ input = Text_I64_MAX
    /\ Len(out) >= 2
    /\ IsOk(out[1], Payload("IntLiteral", I64_MAX))
    /\ out[1].span.end.offset = 19
    /\ IsEof(out[2])

\* The reserved words of the specification, each with its token.
Reserved ==
   <<[w |-> <<"t", "r", "u", "e">>, t |-> Payload("BoolLiteral", TRUE)],
     [w |-> <<"f", "a", "l", "s", "e">>, t |-> Payload("BoolLiteral", FALSE)],
     [w |-> <<"i", "f">>, t |-> Marker("If")],
     [w |-> <<"f", "i">>, t |-> Marker("Fi")],
     [w |-> <<"e", "l", "s", "e">>, t |-> Marker("Else")],
     [w |-> <<"w", "h", "i", "l", "e">>, t |-> Marker("While")],
     [w |-> <<"c", "a", "s", "e">>, t |-> Marker("Case")],
     [w |-> <<"e", "s", "a", "c">>, t |-> Marker("Esac")],
     [w |-> <<"i", "s", "v", "o", "i", "d">>, t |-> Marker("IsVoid")],
     [w |-> <<"l", "e", "t">>, t |-> Marker("Let")],
     [w |-> <<"l", "o", "o", "p">>, t |-> Marker("Loop")],
     [w |-> <<"n", "e", "w">>, t |-> Marker("New")],
     [w |-> <<"n", "o", "t">>, t |-> Marker("Not")],
     [w |-> <<"o", "f">>, t |-> Marker("Of")],
     [w |-> <<"p", "o", "o", "l">>, t |-> Marker("Pool")],
     [w |-> <<"t", "h", "e", "n">>, t |-> Marker("Then")],
     [w |-> <<"i", "n">>, t |-> Marker("In")],
     [w |-> <<"i", "n", "h", "e", "r", "i", "t", "s">>, t |-> Marker("Inherits")],
     [w |-> <<"c", "l", "a", "s", "s">>, t |-> Marker("Class")]>>

ReservedWords == {Reserved[i].w : i \in 1..Len(Reserved)}

\* The length of the maximal run of alphanumeric characters and
\* underscores at the front of rest.
RunLen(rest) ==
    IF \E k \in 1..Len(rest) : ~(is_alphanumeric(rest[k]) \/ rest[k] = "_")
    THEN (CHOOSE k \in 1..Len(rest) :
              /\ ~(is_alphanumeric(rest[k]) \/ rest[k] = "_")
              /\ \A j \in 1..(k - 1) : is_alphanumeric(rest[j]) \/ rest[j] = "_") - 1
    ELSE Len(rest)

\* The token the specification gives the word w.
WordToken(w) ==
    IF w \in ReservedWords
    THEN Reserved[CHOOSE i \in 1..Len(Reserved) : Reserved[i].w = w].t
    ELSE IF w[1] \in UpperAscii THEN Payload("ClassName", w)
    ELSE Payload("Ident", w)

\* C8: a next_token call whose whitespace skip stops at an ASCII letter or
\* '_' returns the token of the maximal run w of alphanumerics and
\* underscores there: the keyword or bool token when w is exactly a reserved
\* word, else ClassName(w) when w starts uppercase and Ident(w) when it
\* starts lowercase or with '_'; so no Ident or ClassName ever carries a
\* reserved word, `Class` and `True` are ClassNames and `_foo` is an Ident.
C8_WordClassification ==
    /\ [][LET l1 == skip_whitespace(Lx)
              rest == l1.current \o l1.peek \o l1.buffer
              w == SubSeq(rest, 1, RunLen(rest))
          IN  (l1.current # None /\ l1.current[1] \in LowerAscii \cup UpperAscii \cup {"_"}) =>
                  /\ IsOk(ret', WordToken(w))
                  /\ ret'.span.end.offset - ret'.span.start.offset = Len(w)]_vars
    /\ [](\A i \in 1..Len(out) :
              (out[i].kind = "ok" /\ out[i].token_type.tag \in {"Ident", "ClassName"}) =>
                  out[i].token_type.val \notin ReservedWords)
    /\ [](Len(out) >= 1 =>
              /\ input = <<"C", "l", "a", "s", "s">> =>
                     IsOk(out[1], Payload("ClassName", input))
              /\ input = <<"T", "r", "u", "e">> =>
                     IsOk(out[1], Payload("ClassName", input))
              /\ input = <<"_", "f", "o", "o">> =>
                     IsOk(out[1], Payload("Ident", input)))

\* C8 happens: `Class` was lexed to ClassName("Class"), not the keyword.
C8_Witness ==
    /\ input = <<"C", "l", "a", "s", "s">>
    /\ Len(out) >= 1
    /\ IsOk(out[1], Payload("ClassName", <<"C", "l", "a", "s", "s">>))

\* The number of characters consumed: those no longer in the buffer, the
\* current slot or the peek slot.
Consumed == Len(input) - Len(buffer) - Len(current) - Len(peek)

\* The position after the first n characters of t: n, 1 plus the newlines
\* among them, and the characters since the last of those newlines.
PosAt(t, n) ==
    LET nl == {i \in 1..n : t[i] = Newline}
        last == IF nl = {} THEN 0 ELSE CHOOSE i \in nl : \A j \in nl : j <= i
    IN  [offset |-> n, line |-> 1 + Cardinality(nl), col |-> n - last]

\* C9: in every state the position is that of the characters consumed:
\* offset is their number (at most the input length), line is 1 plus the
\* newlines among them, column the characters since the last newline; what
\* is left is exactly the rest of the input; every span's positions are
\* such positions, a token starting right after a newline starts at column
\* 0, and in `a<newline>b` the token for b starts at line 2, column 0.
C9_PositionSynchronized ==
    /\ Consumed \in 0..Len(input)
    /\ pos = PosAt(input, Consumed)
    /\ current \o peek \o buffer = SubSeq(input, Consumed + 1, Len(input))
    /\ \A i \in 1..Len(out) :
           out[i].kind = "ok" =>
               LET sp == out[i].span
               IN  /\ sp.start.offset \in 0..Len(input)
                   /\ sp.end.offset \in 0..Len(input)
                   /\ sp.start = PosAt(input, sp.start.offset)
                   /\ sp.end = PosAt(input, sp.end.offset)
                   /\ (sp.start.offset > 0 /\ input[sp.start.offset] = Newline) =>
                          sp.start.col = 0
    /\ (input = Text_AB /\ Len(out) >= 2) =>
           /\ IsOk(out[2], Payload("Ident", <<"b">>))
           /\ out[2].span.start = Pos_new(2, 2, 0)

\* C9 happens: in `a<newline>b` the second token was produced, starting at
\* line 2, column 0.
C9_Witness ==
    /\ input = Text_AB
    /\ Len(out) >= 2
    /\ out[2].kind = "ok"
    /\ out[2].span.start = Pos_new(2, 2, 0)
    /\ pos = Pos_new(3, 2, 1)

\* The characters of the input in [start.offset, end.offset).
Lexeme(sp) == SubSeq(input, sp.start.offset + 1, sp.end.offset)

\* lex is the source text of a token of type tt.
LexemeMatches(tt, lex) ==
    CASE tt.tag = "Eof" -> lex = <<>>
      [] tt.tag = "LBrace" -> lex = <<"{">>
      [] tt.tag = "RBrace" -> lex = <<"}">>
      [] tt.tag = "StringLiteral" -> lex = <<Quote>> \o tt.val \o <<Quote>>
      [] tt.tag = "IntLiteral" ->
             /\ Len(lex) >= 1
             /\ \A k \in 1..Len(lex) : is_ascii_digit(lex[k])
             /\ ToDecimal(tt.val) = StripZeros(lex)
      [] tt.tag \in {"Ident", "ClassName"} -> lex = tt.val
      [] OTHER -> lex \in ReservedWords /\ WordToken(lex) = tt

\* C10, on the recorded results: every Ok token's span has start <= end,
\* its characters are exactly the token's lexeme, with no whitespace at
\* either end, and the spans are ordered and do not overlap.
SpansBracketLexemes ==
    /\ \A i \in 1..Len(out) :
           out[i].kind = "ok" =>
               LET sp == out[i].span
                   lex == Lexeme(sp)
               IN  /\ sp.start.offset <= sp.end.offset
                   /\ sp.end.offset <= Len(input)
                   /\ LexemeMatches(out[i].token_type, lex)
                   /\ lex # <<>> =>
                          ~is_whitespace(lex[1]) /\ ~is_whitespace(lex[Len(lex)])
    /\ \A i, j \in 1..Len(out) :
           (i < j /\ out[i].kind = "ok" /\ out[j].kind = "ok") =>
               out[i].span.end.offset <= out[j].span.start.offset

\* C10, on each call: the position never moves backwards; an Ok token
\* starts after the whitespace that followed the position before the call
\* and ends at the position after it.
SpanOfCall ==
    /\ pos'.offset >= pos.offset
    /\ pos'.line >= pos.line
    /\ ret'.kind = "ok" =>
           /\ ret'.span.start.offset >= pos.offset
           /\ \A k \in (pos.offset + 1)..ret'.span.start.offset : is_whitespace(input[k])
           /\ ret'.span.end = pos'

\* C10: for every Ok token the span brackets exactly the characters consumed
\* to produce it (start at its first character after whitespace, end just
\* past its last, start <= end, the characters between being its lexeme);
\* across calls the spans are ordered, do not overlap, and positions never
\* move backwards.
C10_SpansBracketTokens == []SpansBracketLexemes /\ [][SpanOfCall]_vars

\* C10 happens: in `<tab>if<cr><newline> fi` both tokens were produced, with
\* spans [1, 3) and [6, 8), and then Eof at 8.
C10_Witness ==
    /\ input = <<"\t", "i", "f", "\r", Newline, " ", "f", "i">>
    /\ Len(out) >= 3
    /\ IsOk(out[1], Marker("If"))
    /\ out[1].span.start.offset = 1 /\ out[1].span.end.offset = 3
    /\ IsOk(out[2], Marker("Fi"))
    /\ out[2].span.start.offset = 6 /\ out[2].span.end.offset = 8
    /\ IsEof(out[3])
    /\ out[3].span.start.offset = 8

\* The whitespace characters among those of the inputs.
WsChars == {" ", "\t", Newline, "\r", "U+00A0"}

\* What the lexer has not consumed, and the number of whitespace characters
\* at its front.
Rest == current \o peek \o buffer

WsLen(rest) ==
    IF \E k \in 1..Len(rest) : rest[k] \notin WsChars
    THEN (CHOOSE k \in 1..Len(rest) :
              /\ rest[k] \notin WsChars
              /\ \A j \in 1..(k - 1) : rest[j] \in WsChars) - 1
    ELSE Len(rest)

\* An InvalidChar from the dispatch of next_token ('0' is a digit, so
\* InvalidChar('0') is the failed parse of a digit run).
IsRejected(r) == IsError(r, "InvalidChar") /\ r.err.c # Some("0")

\* C11, on each call: InvalidChar(c) is returned exactly by a call whose
\* whitespace skip stops at c, which stays current.
RejectedWhereReached ==
    IsRejected(ret') =>
        /\ WsLen(Rest) < Len(Rest)
        /\ ret'.err.c = Some(Rest[WsLen(Rest) + 1])
        /\ pos'.offset = pos.offset + WsLen(Rest)
        /\ current' = ret'.err.c

\* C11, on the recorded results: when the results before the first
\* InvalidChar(c) are all tokens, these tokens and whitespace make up the
\* input before c, in source order.
TokensBeforeRejected ==
    \A i \in 1..Len(out) :
        (IsRejected(out[i]) /\ \A j \in 1..(i - 1) : out[j].kind = "ok") =>
            /\ input[pos.offset + 1] = out[i].err.c[1]
            /\ \A j \in 1..(i - 1) :
                   LET from == IF j = 1 THEN 0 ELSE out[j - 1].span.end.offset
                   IN  /\ from <= out[j].span.start.offset
                       /\ out[j].span.end.offset <= pos.offset
                       /\ out[j].token_type.tag # "Eof"
                       /\ \A k \in (from + 1)..out[j].span.start.offset :
                              input[k] \in WsChars
            /\ \A k \in ((IF i = 1 THEN 0 ELSE out[i - 1].span.end.offset) + 1)..pos.offset :
                   input[k] \in WsChars

\* C11: an invalid character surfaces only on the call that reaches it:
\* the calls before it return the tokens before it in source order, and
\* the first InvalidChar(c) comes from the call whose whitespace skip stops
\* at c; for `5 + 3` the first call returns IntLiteral(5) and the second
\* InvalidChar('+').
C11_InvalidCharWhenReached ==
    /\ [][RejectedWhereReached]_vars
    /\ []TokensBeforeRejected
    /\ []((input = Text_FivePlusThree /\ Len(out) >= 2) =>
              /\ IsOk(out[1], Payload("IntLiteral", <<0, 0, 5>>))
              /\ out[2] = Err("InvalidChar", Some("+")))

\* C11 happens: `5 + 3` gave IntLiteral(5) and then InvalidChar('+'), with
\* '+' still current at offset 2.
C11_Witness ==
    /\ input = Text_FivePlusThree
    /\ Len(out) >= 2
    /\ IsOk(out[1], Payload("IntLiteral", <<0, 0, 5>>))
    /\ out[2] = Err("InvalidChar", Some("+"))
    /\ current = Some("+")
    /\ pos.offset = 2

\* C12: for an input of whitespace only (the empty input included) the
\* first next_token call returns the Eof token, with a zero-width span at
\* the end of the input.
C12_WhitespaceOnlyIsEof ==
    ((\A k \in 1..Len(input) : input[k] \in WsChars) /\ Len(out) >= 1) =>
        /\ IsEof(out[1])
        /\ out[1].span.start = out[1].span.end
        /\ out[1].span.end.offset = Len(input)
        /\ out[1].span.end = PosAt(input, Len(input))

\* C12 happens: space, tab, carriage return, newline lexed to Eof at offset
\* 4, line 2, column 0.
C12_Witness ==
    /\ input = <<" ", "\t", "\r", Newline>>
    /\ Len(out) >= 1
    /\ IsEof(out[1])
    /\ out[1].span.start = Pos_new(4, 2, 0)
    /\ out[1].span.end = Pos_new(4, 2, 0)

\* The first n next_token calls from lx: for each, the offset before the
\* call, the offset where its whitespace skip stopped, and its Result.
RECURSIVE Trace(_, _)
Trace(lx, n) ==
    IF n = 0 THEN <<>>
    ELSE LET r == next_token(lx)
         IN  <<[from |-> lx.pos.offset,
                to |-> skip_whitespace(lx).pos.offset,
                res |-> r.res]>> \o Trace(r.lx, n - 1)

\* Two Results agree in kind and payload or error; spans are not compared.
SameKind(a, b) ==
    /\ a.kind = b.kind
    /\ a.kind = "ok" =>
           /\ a.token_type.tag = b.token_type.tag
           /\ a.token_type.val = b.token_type.val
    /\ a.kind = "err" => a.err = b.err

\* Lexing the text v gives the recorded results, spans aside.
SameResults(v) ==
    LET tr == Trace(Lexer_new(v), Len(out))
    IN  \A i \in 1..Len(out) : SameKind(tr[i].res, out[i])

\* The whitespace runs skipped by the recorded calls, as pairs <<a, b>>: the
\* run is input[a+1..b].  With strict, the runs right after an
\* Err(StringUnterminated) (they start with the newline that ended the
\* string scan) are left out.
SkippedRuns(strict) ==
    LET tr == Trace(Lexer_new(input), Len(out))
    IN  {<<tr[i].from, tr[i].to>> : i \in
            {i \in 1..Len(out) :
                /\ tr[i].from < tr[i].to
                /\ strict => (i = 1 \/ ~IsError(tr[i - 1].res, "StringUnterminated"))}}

\* The input with each such run in turn replaced by one whitespace
\* character, or followed by one more.
RunVariants(strict) ==
    UNION {{SubSeq(input, 1, run[1]) \o <<w>> \o SubSeq(input, run[2] + 1, Len(input)),
            SubSeq(input, 1, run[2]) \o <<w>> \o SubSeq(input, run[2] + 1, Len(input))} :
              run \in SkippedRuns(strict), w \in WsChars}

\* The input with one whitespace character added at the start, at the end.
StartVariants == {<<w>> \o input : w \in WsChars}
EndVariants == {input \o <<w>> : w \in WsChars}

\* C13 as stated: replacing a non-empty whitespace run between results by
\* another, or adding whitespace at the start or the end, leaves the
\* sequence of token kinds, payloads and errors unchanged.
C13_WhitespaceIndependent ==
    \A v \in RunVariants(FALSE) \cup StartVariants \cup EndVariants : SameResults(v)

\* C13 amended: the same, except that whitespace after the opening quote of
\* a string literal not closed on its line is not touched: the run after an
\* Err(StringUnterminated) is not replaced, and nothing is added at the end
\* of an input whose lexing ran into Err(StringContainsEof).
C13_WhitespaceOutsideStrings ==
    /\ SameResults(input)
    /\ \A v \in RunVariants(TRUE) \cup StartVariants : SameResults(v)
    /\ (\A i \in 1..Len(out) : ~IsError(out[i], "StringContainsEof")) =>
           \A v \in EndVariants : SameResults(v)

\* C13 happens: `<tab>if<cr><newline> fi` was lexed to If, Fi, Eof, and so
\* are its variants.
C13_Witness ==
    /\ input = <<"\t", "i", "f", "\r", Newline, " ", "f", "i">>
    /\ Len(out) >= 3
    /\ IsOk(out[2], Marker("Fi"))
    /\ IsEof(out[3])
    /\ SkippedRuns(TRUE) = {<<0, 1>>, <<3, 6>>}
    /\ SameResults(<<"i", "f", " ", "f", "i", Newline>>)

\* What a pull is to return for the Result r of the underlying call.
Mirrored(r) == IF IsEof(r) THEN None ELSE Some(r)

IteratorMirrorsCall ==
    item'.called =>
        /\ item'.val = Mirrored(ret')
        /\ (item'.val = None) <=> IsEof(ret')
        /\ ret' = next_token(Lx).res
        /\ [buffer |-> buffer', current |-> current', pos |-> pos', peek |-> peek']
               = next_token(Lx).lx

\* Whichever of the recorded calls were pulls and whichever yielded errors,
\* the recorded Results are those of next_token called again and again from
\* the start of the input.
NoFlagAfterError ==
    LET tr == Trace(Lexer_new(input), Len(out))
    IN  \A i \in 1..Len(out) : out[i] = tr[i].res

\* C14: Iterator::next makes one next_token call and returns None exactly
\* when that call returned Eof, Some(Ok(t)) for every other token and
\* Some(Err(e)) for every error; a pull after a yielded error calls
\* next_token again from the cursor state the error left.
C14_IteratorMirrorsNextToken ==
    /\ [][IteratorMirrorsCall]_vars
    /\ []NoFlagAfterError

\* C14 happens: on `"a<newline>b" c` a first call gave
\* Err(StringUnterminated) and the pull after it yielded Some(Ok(b)).
C14_Witness ==
    /\ input = <<Quote, "a", Newline, "b", Quote, " ", "c">>
    /\ Len(out) = 2
    /\ IsError(out[1], "StringUnterminated")
    /\ out[2].kind = "ok"
    /\ out[2].token_type.val = <<"b">>
    /\ item.called
    /\ item.val = Some(out[2])

\* The number of bytes of a character in the UTF-8 source text: one for
\* ASCII, two for U+0080..U+07FF.
Utf8Len(c) == IF c \in {"U+00A0", "U+00C9", "U+00E9", "U+0663"} THEN 2 ELSE 1

RECURSIVE ByteLen(_)
ByteLen(t) == IF t = <<>> THEN 0 ELSE Utf8Len(Head(t)) + ByteLen(Tail(t))

\* The character boundary of the input a position's line and column name:
\* the number of characters before it.
Boundary(p) ==
    CHOOSE k \in 0..Len(input) :
        PosAt(input, k).line = p.line /\ PosAt(input, k).col = p.col

IsByteOffset(p) == p.offset = ByteLen(SubSeq(input, 1, Boundary(p)))

\* C15: the offset of every position reported in a span is the byte offset
\* into the source text of its character boundary, also for inputs with
\* multi-byte characters.
C15_ByteOffsets ==
    \A i \in 1..Len(out) :
        out[i].kind = "ok" =>
            /\ IsByteOffset(out[i].span.start)
            /\ IsByteOffset(out[i].span.end)

\* The length of the maximal run of ASCII digits at the front of t.
DigitRunLen(t) ==
    IF \E k \in 1..Len(t) : ~is_ascii_digit(t[k])
    THEN (CHOOSE k \in 1..Len(t) :
              /\ ~is_ascii_digit(t[k])
              /\ \A j \in 1..(k - 1) : is_ascii_digit(t[j])) - 1
    ELSE Len(t)

\* The unconsumed text past its leading whitespace: where a call scans.
AfterWs == SubSeq(Rest, WsLen(Rest) + 1, Len(Rest))

\* The call at hand meets a digit run denoting more than 2^63 - 1.
AtOverflow ==
    /\ DigitRunLen(AfterWs) >= 1
    /\ ~FitsI64(StripZeros(SubSeq(AfterWs, 1, DigitRunLen(AfterWs))))

OverflowConsumed ==
    /\ AtOverflow =>
           /\ ret' = Err("InvalidChar", Some("0"))
           /\ pos'.offset = pos.offset + WsLen(Rest) + DigitRunLen(AfterWs)
           /\ current' \o peek' \o buffer'
                  = SubSeq(AfterWs, DigitRunLen(AfterWs) + 1, Len(AfterWs))
    /\ (IsError(ret', "InvalidChar") /\ ret'.err.c = Some("0")) => AtOverflow

\* C16: a call that meets a maximal digit run denoting more than 2^63 - 1
\* returns Err(InvalidChar('0')) whatever the digits, with the position just
\* past the last digit and the text after the run left to the next call;
\* InvalidChar('0') is returned in no other case, and after 2^63 in
\* `9223372036854775808 x` the next call returns the identifier x.
C16_OverflowConsumesRun ==
    /\ [][OverflowConsumed]_vars
    /\ []((input = DecimalOf[<<92233, 7203685, 4775808>>] \o <<" ", "x">> /\ Len(out) >= 3) =>
              /\ out[1] = Err("InvalidChar", Some("0"))
              /\ IsOk(out[2], Payload("Ident", <<"x">>))
              /\ out[2].span.start.offset = 20
              /\ IsEof(out[3]))

\* C16 happens: 2^64 - 1 followed by `a1` gave InvalidChar('0') with the
\* twenty digits consumed, and the next call returned the identifier a1.
C16_Witness ==
    /\ input = DecimalOf[U64_MAX] \o <<"a", "1">>
    /\ Len(out) = 2
    /\ out[1] = Err("InvalidChar", Some("0"))
    /\ IsOk(out[2], Payload("Ident", <<"a", "1">>))
    /\ out[2].span.start.offset = 20
    /\ pos.offset = 22

\* The index in t, which starts with an opening quote, of the first
\* closing quote, null or newline after it; 0 when there is none.
StringStop(t) ==
    LET stops == {k \in 2..Len(t) : t[k] \in {Quote, Nul, Newline}}
    IN  IF stops = {} THEN 0 ELSE CHOOSE k \in stops : \A j \in stops : k <= j

\* A failed string scan leaves the cursor on the character it failed on.
RestsOnOffender(tag, c) ==
    IsError(ret', tag) =>
        /\ ret'.err.c = None
        /\ AfterWs # <<>> /\ AfterWs[1] = Quote
        /\ StringStop(AfterWs) > 0
        /\ AfterWs[StringStop(AfterWs)] = c
        /\ current' = Some(c)
        /\ pos'.offset = pos.offset + WsLen(Rest) + StringStop(AfterWs) - 1
        /\ current' \o peek' \o buffer'
               = SubSeq(AfterWs, StringStop(AfterWs), Len(AfterWs))

RestsAtEnd ==
    IsError(ret', "StringContainsEof") =>
        /\ AfterWs # <<>> /\ AfterWs[1] = Quote
        /\ StringStop(AfterWs) = 0
        /\ current' = None /\ peek' = None /\ buffer' = <<>>
        /\ pos'.offset = Len(input)

\* The call after a failed string scan.
AfterStringError ==
    /\ IsError(ret, "StringUnterminated") =>
           /\ current = Some(Newline)
           /\ WsLen(Rest) >= 1
           /\ SameKind(ret', Trace(Lexer_new(Tail(Rest)), 1)[1].res)
    /\ (IsError(ret, "StringContainsNull") \/ ret = Err("InvalidChar", Some(Nul))) =>
           /\ ret' = Err("InvalidChar", Some(Nul))
           /\ current' = Some(Nul)
           /\ pos' = pos
    /\ IsError(ret, "StringContainsEof") => IsEof(ret')

\* C17: a failed string scan has consumed the opening quote and the content
\* before the offending character and rests on that character, the error
\* carrying no text: after Err(StringUnterminated) current is the newline
\* and the next call lexes what follows it as if the text began there; after
\* Err(StringContainsNull) current is the null and the next call and every
\* later one return InvalidChar(null); after Err(StringContainsEof) nothing
\* is left and the next call returns Eof.
C17_CursorAfterFailedString ==
    [][/\ RestsOnOffender("StringUnterminated", Newline)
       /\ RestsOnOffender("StringContainsNull", Nul)
       /\ RestsAtEnd
       /\ AfterStringError]_vars

\* C17 happens: `"a<null>b"` gave Err(StringContainsNull), then
\* InvalidChar(null) twice, the cursor still on the null at offset 2.
C17_Witness ==
    /\ input = <<Quote, "a", Nul, "b", Quote>>
    /\ Len(out) = 3
    /\ IsError(out[1], "StringContainsNull")
    /\ out[2] = Err("InvalidChar", Some(Nul))
    /\ out[3] = Err("InvalidChar", Some(Nul))
    /\ current = Some(Nul)
    /\ pos.offset = 2

EofAbsorbing ==
    IsEof(ret) =>
        /\ ret.span.start = ret.span.end
        /\ ret.span.end = pos
        /\ ret' = ret
        /\ current' = current /\ peek' = peek /\ pos' = pos /\ buffer' = buffer
        /\ item'.called => item'.val = None

IteratorStaysEnded ==
    (item.called /\ item.val = None) => (item'.called => item'.val = None)

\* C18: once a call has returned Eof, every later call returns Eof with the
\* same zero-width span and leaves current, the peek slot, the buffer and
\* the position as they are, and every later Iterator::next returns None;
\* after its first None the iterator yields no item.
C18_EofAbsorbing == [][EofAbsorbing /\ IteratorStaysEnded]_vars

\* C18 happens: `{` gave LBrace, then Eof twice, the second by a pull that
\* returned None.
C18_Witness ==
    /\ input = <<"{">>
    /\ Len(out) = 3
    /\ IsOk(out[1], Marker("LBrace"))
    /\ IsEof(out[2])
    /\ out[3] = out[2]
    /\ item.called /\ item.val = None

IsStringError(r) ==
    \/ IsError(r, "StringUnterminated")
    \/ IsError(r, "StringContainsNull")
    \/ IsError(r, "StringContainsEof")

CallProgress ==
    /\ (ret'.kind = "ok" /\ ~IsEof(ret')) => pos'.offset > pos.offset
    /\ IsStringError(ret') => pos'.offset > pos.offset
    /\ ret' = Err("InvalidChar", Some("0")) => pos'.offset > pos.offset
    /\ pos'.offset >= pos.offset
    /\ pos'.offset = pos.offset => (IsEof(ret') \/ IsRejected(ret'))

\* The characters some arm of the dispatch, or the whitespace skip, takes.
DispatchAccepts(c) ==
    \/ c \in WsChars
    \/ c \in {"{", "}", Quote, "_"}
    \/ is_ascii_digit(c)
    \/ c \in LowerAscii \cup UpperAscii

\* The first Eof among the recorded results; 0 when there is none.
FirstEof ==
    LET eofs == {i \in 1..Len(out) : IsEof(out[i])}
    IN  IF eofs = {} THEN 0 ELSE CHOOSE i \in eofs : \A j \in eofs : i <= j

LexedWithinLength ==
    ((\A k \in 1..Len(input) : DispatchAccepts(input[k]))
        /\ Len(out) >= Len(input) + 1)
    => (FirstEof \in 1..(Len(input) + 1)
        /\ \A i \in 1..(FirstEof - 1) : ~IsRejected(out[i]))

\* C19: every call that returns Ok with a token other than Eof, a string
\* error or the integer-overflow error increases the offset; the offset
\* never decreases and stays only on Eof and on InvalidChar from the
\* dispatch; an input with no character the dispatch rejects has been lexed
\* to Eof after at most (input length + 1) calls.
C19_Progress == [][CallProgress]_vars /\ []LexedWithinLength

\* C19 happens: `"ab` gave Err(StringContainsEof) with the three characters
\* consumed, and the second call Eof, within 3 + 1 calls.
C19_Witness ==
    /\ input = <<Quote, "a", "b">>
    /\ Len(out) = 4
    /\ IsError(out[1], "StringContainsEof")
    /\ FirstEof = 2
    /\ pos.offset = 3

\* The character after current in the unconsumed text.
AfterCurrent == IF Len(Rest) >= 2 THEN Some(Rest[2]) ELSE None

PeekStep ==
    seen'.called =>
        /\ seen'.val = AfterCurrent
        /\ current' = current /\ pos' = pos
        /\ current' \o peek' \o buffer' = Rest
        /\ taken' = taken
        /\ seen.called => seen'.val = seen.val

AdvanceStep ==
    ~seen'.called =>
        /\ current' = AfterCurrent
        /\ seen.called => current' = seen.val
        /\ IF current = None
           THEN taken' = taken /\ pos' = pos /\ current' = None
           ELSE /\ taken' = Append(taken, current[1])
                /\ current' \o peek' \o buffer' = Tail(Rest)
                /\ pos' = Pos_advance(pos, current[1])

\* C20: peek returns the character after current and changes neither
\* current nor the position, consecutive peeks return the same value, and
\* under any interleaving of peek and advance the characters advance has
\* returned, followed by what is unconsumed, are the source text: the
\* peeked character becomes the next current, none skipped or duplicated,
\* and when current is None every character has been returned.
C20_PeekAdvance ==
    /\ [][PeekStep /\ AdvanceStep]_vars
    /\ [](taken \o Rest = input)
    /\ [](current = None => taken = input)

\* C20 happens: on `a1+`, after an advance that returned a, a peek returned
\* + with current still 1 at offset 1.
C20_Witness ==
    /\ input = <<"a", "1", "+">>
    /\ taken = <<"a">>
    /\ seen.called
    /\ seen.val = Some("+")
    /\ peek = Some("+")
    /\ current = Some("1")
    /\ pos.offset = 1

====
